---- MODULE Spec2Model ----
(***************************************************************************)
(* Model of the water-dispenser pump control program.                      *)
(*                                                                         *)
(*   src/pump_control_class.py  PumpController (Modbus RTU hardware        *)
(*                              driver) and SimulatedPumpController        *)
(*   src/gui.py                 PumpOperationThread (the execution unit    *)
(*                              running Fill / Dispense / Drain) and       *)
(*                              PumpControlGUI (the controlling thread:    *)
(*                              start/stop of operations, the stop         *)
(*                              watchdog, scheduled dispensing)            *)
(*                                                                         *)
(* Six specifications share the variables:                                 *)
(*   DriverSpec  one driver of either class driven through connect /       *)
(*               set_client / run / stop / disconnect with arbitrary       *)
(*               arguments and write failures;                             *)
(*   Spec        the GUI of src/gui.py with its two simulated pumps, the   *)
(*               worker thread stepping statement by statement, the Qt     *)
(*               event queue carrying its signals, and the timers;         *)
(*   FairSpec    Spec with the fairness the Qt event loop provides;        *)
(*   SlotSpec    Spec with the scheduler's two methods also called         *)
(*               directly, whatever the state of their buttons;            *)
(*   SharedSpec  two drivers of one class sharing one link;                *)
(*   LiveSpec    Spec without the stop button, with a scheduled worker     *)
(*               and an advancing clock.                                   *)
(***************************************************************************)
EXTENDS Integers, Sequences, FiniteSets, TLC

VARIABLES
    \* ---- the two pump drivers and the bus (src/pump_control_class.py)
    pumps,              \* [dispenser |-> driver object, retractor |-> driver object]
    dev,                \* the pumps' Modbus registers and run coil, by unit id
    link,               \* state of the serial client object each driver created
    lastWrites,         \* device writes attempted by the last driver call
    lastCall,           \* the last driver call: its arguments and what it returned
    \* ---- PumpControlGUI fields (src/gui.py)
    current_operation,
    operation_thread,
    stop_timer,
    scheduled_dispense_active,
    scheduled_timer,
    next_dispense_time,
    dispense_interval_minutes,
    dispense_duration_seconds,
    buttons,            \* isEnabled() of the six push buttons
    gui,                \* where the controlling thread is
    \* ---- PumpOperationThread objects, the Qt event queue, the clock
    threads,
    nruns,
    queue,
    now,
    ticked,
    handled             \* terminal events handled so far, per run (history)

driverVars == <<pumps, dev, link, lastWrites, lastCall>>

guiVars == <<current_operation, operation_thread, stop_timer,
             scheduled_dispense_active, scheduled_timer, next_dispense_time,
             dispense_interval_minutes, dispense_duration_seconds, buttons, gui,
             threads, nruns, queue, now, ticked, handled>>

vars == <<pumps, dev, link, lastWrites, lastCall,
          current_operation, operation_thread, stop_timer,
          scheduled_dispense_active, scheduled_timer, next_dispense_time,
          dispense_interval_minutes, dispense_duration_seconds, buttons, gui,
          threads, nruns, queue, now, ticked, handled>>

None == "None"

\* None where the program holds a number otherwise (a duration, a time, a speed)
Unset == 0 - 1

(***************************************************************************)
(* Bounds of the model and the configuration it runs with.                 *)
(***************************************************************************)
\* pump_hardware.max_rpm of the configuration
MaxRpm == 2
\* how far above max_rpm the requested speeds of DriverSpec range
RpmOver == 2
\* operation_settings of the configuration
RetractorRpm == 2
FillDispenserRpm == 1
DispenseDispenserRpm == 1
DrainDispenserRpm == 3
FillDuration == 1
DispenseDuration == 2
DrainDuration == 1
OperationSleep == 1
\* largest value of the duration spin box the model tries
MaxSchedDuration == 1
\* largest value of the interval spin box the model tries
MaxInterval == 1
\* operations started in one behaviour, and how far the clock runs (seconds)
MaxRuns == 2
MaxTime == 3

(***************************************************************************)
(* Constants of PumpController.                                            *)
(***************************************************************************)
COIL_START_STOP == 0
REG_TARGET_RPM == 2
REG_MAX_RPM == 4
REG_OPERATION_MODE == 9
REG_DIRECTION == 12
REG_COMMUNICATION == 14
OPERATION_MODE_CONTINUOUS == 0
DIRECTION_CW == 1
DIRECTION_CCW == 0
COMM_RS485 == 1
\* the protocol's speed unit: register value = RPM * 100
RpmScale == 100
\* gui.py: minutes to seconds in next_dispense_time
SecsPerMinute == 60

\* time.sleep(0.1): the progress loops emit ten times a second
ProgressTicksPerSecond == 10

DISPENSER_UNIT == 1
RETRACTOR_UNIT == 2

PumpNames == {"dispenser", "retractor"}
Units == {DISPENSER_UNIT, RETRACTOR_UNIT}

(***************************************************************************)
(* Driver objects.  One record shape serves both classes; the fields       *)
(* current_rpm, is_running, direction and has_start_time exist only in     *)
(* SimulatedPumpController and keep their initial values in a hardware     *)
(* driver.  has_start_time abstracts start_time (None / a time stamp):     *)
(* only get_status reads its value.                                        *)
(***************************************************************************)
NewDriver(kind, unit) ==
    [kind |-> kind, unit_id |-> unit, max_rpm |-> MaxRpm,
     connected |-> FALSE, client |-> None,
     current_rpm |-> 0, is_running |-> FALSE, direction |-> "CW",
     has_start_time |-> FALSE]

\* The registers of a pump the model follows: the run coil, the target speed
\* and the direction.  The writes of _initialize_pump (communication mode,
\* operation mode, speed ceiling) appear in lastWrites only.
NewDevice == [coil |-> FALSE, target_rpm |-> 0, direction |-> DIRECTION_CW]

RegWrite(addr, value, unit, ok) ==
    [op |-> "reg", addr |-> addr, value |-> value, unit |-> unit, ok |-> ok]

\* a coil carries 1 (asserted) or 0
CoilWrite(value, unit, ok) ==
    [op |-> "coil", addr |-> COIL_START_STOP, value |-> IF value THEN 1 ELSE 0,
     unit |-> unit, ok |-> ok]

\* The effect of one write on the addressed pump: none when it raised.
ApplyWrite(dv, w) ==
    IF ~w.ok THEN dv
    ELSE IF w.op = "coil" THEN [dv EXCEPT ![w.unit].coil = (w.value = 1)]
    ELSE IF w.addr = REG_TARGET_RPM THEN [dv EXCEPT ![w.unit].target_rpm = w.value]
    ELSE IF w.addr = REG_DIRECTION THEN [dv EXCEPT ![w.unit].direction = w.value]
    ELSE dv

RECURSIVE ApplyWrites(_, _)
ApplyWrites(dv, ws) ==
    IF ws = <<>> THEN dv ELSE ApplyWrites(ApplyWrite(dv, Head(ws)), Tail(ws))

(***************************************************************************)
(* run(): the clamp and the sign check shared by both classes.             *)
(***************************************************************************)
\* a driver that passes the requested speed on unclamped (ruled out by C8)
ClampNoLimit(p, rpm) == rpm

Clamp(p, rpm) == IF rpm > p.max_rpm THEN p.max_rpm ELSE rpm

\* a driver without the sign test (ruled out by C9)
RejectedNever(rpm) == FALSE

Rejected(rpm) == rpm < 0

Returned(ok) == IF ok THEN "True" ELSE "False"

DirectionName(reverse) == IF reverse THEN "CCW" ELSE "CW"

DirectionCode(reverse) == IF reverse THEN DIRECTION_CCW ELSE DIRECTION_CW

(***************************************************************************)
(* SimulatedPumpController.                                                *)
(***************************************************************************)
SimConnect(p) == [p EXCEPT !.connected = TRUE]

SimSetClient(p, client) == [p EXCEPT !.client = client, !.connected = TRUE]

\* run(rpm, duration, reverse): the driver after the call, what it returned
\* and the speed it commanded (Unset when it commanded nothing).
SimRun(p, rpm, duration, reverse) ==
    IF ~p.connected THEN [pump |-> p, ok |-> FALSE, cmd |-> Unset]
    ELSE IF Rejected(Clamp(p, rpm)) THEN [pump |-> p, ok |-> FALSE, cmd |-> Unset]
    ELSE LET started == [p EXCEPT !.current_rpm = Clamp(p, rpm),
                                  !.is_running = TRUE,
                                  !.direction = DirectionName(reverse),
                                  !.has_start_time = TRUE]
         IN  [pump |-> IF duration # Unset
                       THEN [started EXCEPT !.current_rpm = 0, !.is_running = FALSE]
                       ELSE started,
              ok |-> TRUE, cmd |-> Clamp(p, rpm)]

SimStop(p) ==
    IF p.connected THEN [p EXCEPT !.current_rpm = 0, !.is_running = FALSE] ELSE p

SimDisconnect(p) ==
    [(IF p.is_running THEN SimStop(p) ELSE p)
        EXCEPT !.connected = FALSE, !.current_rpm = 0, !.is_running = FALSE,
               !.has_start_time = FALSE]

(***************************************************************************)
(* PumpController.  A device write either takes effect or raises; `fail`   *)
(* is the index of the first write of the call that raises (0: none) and   *)
(* `recFail` says whether the recovery write of the except branch raises   *)
(* too.  A driver whose client is None raises on every write.              *)
(***************************************************************************)
\* The writes of _initialize_pump, cut at the one that raises.
HwInitWrites(p, fail) ==
    LET all == <<RegWrite(REG_COMMUNICATION, COMM_RS485, p.unit_id, TRUE),
                 RegWrite(REG_OPERATION_MODE, OPERATION_MODE_CONTINUOUS, p.unit_id, TRUE),
                 RegWrite(REG_MAX_RPM, p.max_rpm * RpmScale, p.unit_id, TRUE)>>
    IN  IF p.client = None THEN <<>>
        ELSE IF fail = 0 \/ fail > Len(all) THEN all
        ELSE Append(SubSeq(all, 1, fail - 1), [all[fail] EXCEPT !.ok = FALSE])

\* a run() that asserts the run coil before it sets direction and speed
\* (ruled out by C25)
HwRunPlanCoilFirst(p, rpm, duration, reverse) ==
    <<CoilWrite(TRUE, p.unit_id, TRUE),
      RegWrite(REG_DIRECTION, DirectionCode(reverse), p.unit_id, TRUE),
      RegWrite(REG_TARGET_RPM, rpm * RpmScale, p.unit_id, TRUE)>>
    \o (IF duration # Unset THEN <<CoilWrite(FALSE, p.unit_id, TRUE)>> ELSE <<>>)

\* The writes of the try block of run(), in program order.
HwRunPlan(p, rpm, duration, reverse) ==
    <<RegWrite(REG_DIRECTION, DirectionCode(reverse), p.unit_id, TRUE),
      RegWrite(REG_TARGET_RPM, rpm * RpmScale, p.unit_id, TRUE),
      CoilWrite(TRUE, p.unit_id, TRUE)>>
    \o (IF duration # Unset THEN <<CoilWrite(FALSE, p.unit_id, TRUE)>> ELSE <<>>)

\* a run() whose except branch only reports the failure (ruled out by C26)
HwRunNoRecovery(p, rpm, duration, reverse, fail, recFail) ==
    IF ~p.connected THEN [ok |-> FALSE, writes |-> <<>>]
    ELSE IF Rejected(Clamp(p, rpm)) THEN [ok |-> FALSE, writes |-> <<>>]
    ELSE LET plan == HwRunPlan(p, Clamp(p, rpm), duration, reverse)
         IN  IF p.client = None
             THEN [ok |-> FALSE, writes |-> <<>>]
             ELSE IF fail = 0 \/ fail > Len(plan)
             THEN [ok |-> TRUE, writes |-> plan]
             ELSE [ok |-> FALSE,
                   writes |-> SubSeq(plan, 1, fail - 1)
                              \o <<[plan[fail] EXCEPT !.ok = FALSE]>>]

\* run(rpm, duration, reverse): what it returned and the writes it attempted.
HwRun(p, rpm, duration, reverse, fail, recFail) ==
    IF ~p.connected THEN [ok |-> FALSE, writes |-> <<>>]
    ELSE IF Rejected(Clamp(p, rpm)) THEN [ok |-> FALSE, writes |-> <<>>]
    ELSE LET plan == HwRunPlan(p, Clamp(p, rpm), duration, reverse)
         IN  IF p.client = None
             THEN [ok |-> FALSE, writes |-> <<>>]
             ELSE IF fail = 0 \/ fail > Len(plan)
             THEN [ok |-> TRUE, writes |-> plan]
             ELSE [ok |-> FALSE,
                   writes |-> SubSeq(plan, 1, fail - 1)
                              \o <<[plan[fail] EXCEPT !.ok = FALSE]>>
                              \o <<CoilWrite(FALSE, p.unit_id, ~recFail)>>]

\* a stop() that does not test `connected` (ruled out by C10)
HwStopUnchecked(p, fail) ==
    IF p.client # None
    THEN <<CoilWrite(FALSE, p.unit_id, fail = 0)>>
    ELSE <<>>

\* stop(): the writes it attempted.
HwStop(p, fail) ==
    IF p.connected /\ p.client # None
    THEN <<CoilWrite(FALSE, p.unit_id, fail = 0)>>
    ELSE <<>>

(***************************************************************************)
(* PumpOperationThread (src/gui.py).                                       *)
(*                                                                         *)
(* A thread object is threads[r], r the number of the run it was created   *)
(* for.  pc is the statement its run() is at:                              *)
(*   new              not constructed yet                                  *)
(*   started          start() called, run() not entered (isRunning())      *)
(*   run_retractor, run_dispenser     the two pump starts                  *)
(*   loop1 / emit1    the timed phase: loop test, then progress emit+sleep *)
(*   check            if self.is_running                                   *)
(*   stop_dispenser, stop_retractor   the stops of the success branch      *)
(*   loop2 / emit2    the settle phase (Fill, Dispense)                    *)
(*   cancel_stop_dispenser, cancel_stop_retractor   the else branch        *)
(*   emit_ok, emit_fail               operation_completed.emit             *)
(*   return           run() about to return                                *)
(*   finished         run() returned, or the thread was terminated         *)
(* time.time() is the clock `now`, in whole seconds; time.sleep(0.1) is    *)
(* part of the emit step.  The clock never runs backwards, and it passes   *)
(* at most one second boundary between the loop test and the reading of    *)
(* `elapsed` that follows it (`ticked`); anywhere else it is free.         *)
(***************************************************************************)
OperationNames == {"Fill", "Dispense", "Drain"}
RunIds == 1 .. MaxRuns

NoThread ==
    [pc |-> "new", operation_name |-> None, custom_duration |-> Unset,
     is_running |-> FALSE, start_time |-> 0, total_time |-> 0,
     last_elapsed |-> Unset]

\* A thread object nobody reads any more.
DeadThread == [NoThread EXCEPT !.pc = "finished"]

\* PumpOperationThread(pump_dispenser, pump_retractor, name, config, custom_duration)
NewThread(name, custom_duration) ==
    [NoThread EXCEPT !.pc = "started", !.operation_name = name,
                     !.custom_duration = custom_duration]

\* QThread.isRunning()
isRunning(r) == threads[r].pc \notin {"new", "finished"}

\* The configuration values each operation reads.
RetractorSpeed(t) == RetractorRpm

DispenserSpeed(t) ==
    IF t.operation_name = "Fill" THEN FillDispenserRpm
    ELSE IF t.operation_name = "Dispense" THEN DispenseDispenserRpm
    ELSE DrainDispenserRpm

DispenserReverse(t) == t.operation_name = "Drain"

\* a run_dispense that ignores custom_duration (ruled out by C13)
PhaseDurationConfigOnly(t) ==
    IF t.operation_name = "Fill" THEN FillDuration
    ELSE IF t.operation_name = "Dispense" THEN DispenseDuration
    ELSE DrainDuration

\* duration, as each operation reads it
PhaseDuration(t) ==
    IF t.operation_name = "Fill" THEN FillDuration
    ELSE IF t.operation_name = "Dispense"
    THEN (IF t.custom_duration # Unset THEN t.custom_duration ELSE DispenseDuration)
    ELSE DrainDuration

\* a Fill / Dispense without its settle time (ruled out by C16)
SleepTimeNone(t) == 0

\* sleep_time: operation_sleep for Fill and Dispense; run_drain has none
SleepTime(t) == IF t.operation_name = "Drain" THEN 0 ELSE OperationSleep

TotalTime(t) == PhaseDuration(t) + SleepTime(t)

\* the end of the phase a loop times: dispenser_end_time / end_time, sleep_end_time
PhaseEnd(t, loop) ==
    IF loop = "loop1" THEN t.start_time + PhaseDuration(t)
    ELSE (t.start_time + PhaseDuration(t)) + SleepTime(t)

\* a loop test with <= (ruled out by C7)
BeforeOrAt(end) == now <= end

\* time.time() < end
Before(end) == now < end

\* a loop that never looks at the clock (ruled out by C30)
LoopTestFlagOnly(t, loop) == t.is_running

\* while self.is_running and time.time() < end
LoopTest(t, loop) == t.is_running /\ Before(PhaseEnd(t, loop))

\* Signals: records posted to the controlling thread's event queue.  `run` is
\* the emitting thread; `flag` is is_running as the emitter read it last.
ProgressEvent(r, elapsed, total) ==
    [type |-> "progress", run |-> r, name |-> None, success |-> FALSE,
     elapsed |-> elapsed, total |-> total, flag |-> TRUE]

CompletedEvent(r, name, success, flag) ==
    [type |-> "completed", run |-> r, name |-> name, success |-> success,
     elapsed |-> 0, total |-> 0, flag |-> flag]

\* A progress event equal to the one posted last is not queued again: the
\* loop emits the same pair ten times a second and the slot only redraws.
Post(q, ev) ==
    IF ev.type = "progress" /\ q # <<>> /\ q[Len(q)] = ev THEN q ELSE Append(q, ev)

\* int(elapsed) of an emit
Elapsed(t) == now - t.start_time

\* Which pump a stop statement stops and the statement after it.
StopTarget(t, pc) ==
    IF pc \in {"stop_dispenser", "cancel_stop_dispenser"} THEN "dispenser" ELSE "retractor"

\* a run_drain that goes on like run_fill after a stop, so that its
\* dispenser is never stopped (ruled out by C17)
AfterStopAsFill(t, pc) ==
    IF pc = "stop_dispenser" THEN "loop2"
    ELSE IF pc = "stop_retractor" THEN "emit_ok"
    ELSE IF pc = "cancel_stop_dispenser" THEN "cancel_stop_retractor"
    ELSE "emit_fail"

AfterStop(t, pc) ==
    IF t.operation_name = "Drain"
    THEN (IF pc = "stop_retractor" THEN "stop_dispenser"
          ELSE IF pc = "stop_dispenser" THEN "emit_ok"
          ELSE IF pc = "cancel_stop_retractor" THEN "cancel_stop_dispenser"
          ELSE "emit_fail")
    ELSE (IF pc = "stop_dispenser" THEN "loop2"
          ELSE IF pc = "stop_retractor" THEN "emit_ok"
          ELSE IF pc = "cancel_stop_dispenser" THEN "cancel_stop_retractor"
          ELSE "emit_fail")

\* The statement after `if self.is_running`.
AfterCheck(t) ==
    IF t.operation_name = "Drain"
    THEN (IF t.is_running THEN "stop_retractor" ELSE "cancel_stop_retractor")
    ELSE (IF t.is_running THEN "stop_dispenser" ELSE "cancel_stop_dispenser")

\* The statement after a loop whose test failed.
AfterLoop(t, loop) == IF loop = "loop1" THEN "check" ELSE "stop_retractor"

StopPcs == {"stop_dispenser", "stop_retractor", "cancel_stop_dispenser",
            "cancel_stop_retractor"}

guiOnly == <<current_operation, operation_thread, stop_timer,
             scheduled_dispense_active, scheduled_timer, next_dispense_time,
             dispense_interval_minutes, dispense_duration_seconds, buttons, gui,
             nruns, handled>>

busVars == <<dev, link, lastWrites, lastCall>>

\* run(): self.is_running = True, then the configuration and start_time
WorkerBegin(r) ==
    /\ threads[r].pc = "started"
    /\ threads' = [threads EXCEPT ![r].pc = "run_retractor",
                                  ![r].is_running = TRUE,
                                  ![r].start_time = now,
                                  ![r].total_time = TotalTime(threads[r])]
    /\ UNCHANGED <<guiOnly, busVars, pumps, queue, now, ticked>>

\* self.pump_retractor.run(rpm=retractor_rpm, reverse=True)
WorkerRunRetractor(r) ==
    /\ threads[r].pc = "run_retractor"
    /\ pumps' = [pumps EXCEPT !.retractor =
                    SimRun(pumps.retractor, RetractorSpeed(threads[r]), Unset, TRUE).pump]
    /\ threads' = [threads EXCEPT ![r].pc = "run_dispenser"]
    /\ UNCHANGED <<guiOnly, busVars, queue, now, ticked>>

\* self.pump_dispenser.run(rpm=dispenser_rpm, reverse=False / True)
WorkerRunDispenser(r) ==
    /\ threads[r].pc = "run_dispenser"
    /\ pumps' = [pumps EXCEPT !.dispenser =
                    SimRun(pumps.dispenser, DispenserSpeed(threads[r]), Unset,
                           DispenserReverse(threads[r])).pump]
    /\ threads' = [threads EXCEPT ![r].pc = "loop1"]
    /\ UNCHANGED <<guiOnly, busVars, queue, now, ticked>>

\* the test of a while loop
WorkerLoopTest(r) ==
    LET t == threads[r] IN
    /\ t.pc \in {"loop1", "loop2"}
    /\ threads' = [threads EXCEPT ![r].pc =
                      IF LoopTest(t, t.pc)
                      THEN (IF t.pc = "loop1" THEN "emit1" ELSE "emit2")
                      ELSE AfterLoop(t, t.pc)]
    /\ ticked' = FALSE
    /\ UNCHANGED <<guiOnly, busVars, pumps, queue, now>>

\* the body of a while loop: elapsed, progress_update.emit, time.sleep(0.1)
WorkerEmitProgress(r) ==
    LET t == threads[r] IN
    /\ t.pc \in {"emit1", "emit2"}
    /\ queue' = Post(queue, ProgressEvent(r, Elapsed(t), t.total_time))
    /\ threads' = [threads EXCEPT ![r].pc = IF t.pc = "emit1" THEN "loop1" ELSE "loop2",
                                  ![r].last_elapsed = Elapsed(t)]
    /\ ticked' = FALSE
    /\ UNCHANGED <<guiOnly, busVars, pumps, now>>

\* if self.is_running: ... else: ...
WorkerCheck(r) ==
    /\ threads[r].pc = "check"
    /\ threads' = [threads EXCEPT ![r].pc = AfterCheck(threads[r])]
    /\ UNCHANGED <<guiOnly, busVars, pumps, queue, now, ticked>>

\* self.pump_dispenser.stop() / self.pump_retractor.stop()
WorkerStopPump(r) ==
    LET t == threads[r]
        d == StopTarget(t, t.pc)
    IN  /\ t.pc \in StopPcs
        /\ pumps' = [pumps EXCEPT ![d] = SimStop(pumps[d])]
        /\ threads' = [threads EXCEPT ![r].pc = AfterStop(t, t.pc)]
        /\ UNCHANGED <<guiOnly, busVars, queue, now, ticked>>

\* self.operation_completed.emit(self.operation_name, True / False)
WorkerEmitCompleted(r) ==
    LET t == threads[r] IN
    /\ t.pc \in {"emit_ok", "emit_fail"}
    /\ queue' = Post(queue, CompletedEvent(r, t.operation_name, t.pc = "emit_ok",
                                           t.is_running))
    /\ threads' = [threads EXCEPT ![r].pc = "return"]
    /\ UNCHANGED <<guiOnly, busVars, pumps, now, ticked>>

\* run() returns: the thread has finished
WorkerReturn(r) ==
    /\ threads[r].pc = "return"
    /\ threads' = [threads EXCEPT ![r] = DeadThread]
    /\ UNCHANGED <<guiOnly, busVars, pumps, queue, now, ticked>>

\* One second passes.
Tick ==
    /\ now < MaxTime
    /\ ~(ticked /\ \E r \in RunIds : threads[r].pc \in {"emit1", "emit2"})
    /\ now' = now + 1
    /\ ticked' = (\E r \in RunIds : threads[r].pc \in {"emit1", "emit2"})
    /\ UNCHANGED <<guiOnly, busVars, pumps, threads, queue>>

(***************************************************************************)
(* DriverSpec: the driver API under arbitrary calls.                       *)
(***************************************************************************)
\* A record of one driver call: the method, its arguments (Unset / FALSE where
\* it has none), what it returned and, for a simulated run, the speed commanded.
Call(op, rpm, duration, reverse, ret, cmd) ==
    [op |-> op, rpm |-> rpm, duration |-> duration, reverse |-> reverse,
     ret |-> ret, cmd |-> cmd]

Kinds == {"hw", "sim"}
RpmRequests == (0 - 1) .. (MaxRpm + RpmOver)
Durations == {Unset, 1}
FailAt == 0 .. 4

InitGuiIdle ==
    /\ current_operation = None
    /\ operation_thread = 0
    /\ stop_timer = None
    /\ scheduled_dispense_active = FALSE
    /\ scheduled_timer = FALSE
    /\ next_dispense_time = Unset
    /\ dispense_interval_minutes = 0
    /\ dispense_duration_seconds = 0
    /\ buttons = [fill |-> TRUE, dispense |-> TRUE, retract |-> TRUE, stop |-> FALSE,
                  start_scheduled |-> TRUE, stop_scheduled |-> FALSE]
    /\ gui = "idle"
    /\ threads = [r \in RunIds |-> NoThread]
    /\ nruns = 0
    /\ queue = <<>>
    /\ now = 0
    /\ ticked = FALSE
    /\ handled = [r \in RunIds |-> 0]

DriverInit ==
    /\ \E k \in Kinds :
         pumps = [dispenser |-> NewDriver(k, DISPENSER_UNIT),
                  retractor |-> NewDriver(k, RETRACTOR_UNIT)]
    /\ dev = [u \in Units |-> NewDevice]
    /\ link = [n \in PumpNames |-> "none"]
    /\ lastWrites = <<>>
    /\ lastCall = Call("none", Unset, Unset, FALSE, None, Unset)
    /\ InitGuiIdle

\* Whether a write through `client` can reach the bus at all.
LinkUsable(client) == client \in PumpNames /\ link[client] = "open"

\* Writes through a closed or missing link raise: the first write fails.
EffectiveFail(p, fail) == IF LinkUsable(p.client) THEN fail ELSE 1

\* d.connect(); `outcome` is what opening the serial port did.
DrvConnect(d, outcome, fail) ==
    LET p == pumps[d] IN
    \/ /\ p.kind = "sim"
       /\ outcome = "ok" /\ fail = 0
       /\ pumps' = [pumps EXCEPT ![d] = SimConnect(p)]
       /\ lastCall' = Call("connect", Unset, Unset, FALSE, "True", Unset)
       /\ lastWrites' = <<>>
       /\ UNCHANGED <<dev, link>>
    \/ /\ p.kind = "hw"
       /\ outcome = "ok"
       /\ LET q == [p EXCEPT !.client = d, !.connected = TRUE]
              ws == HwInitWrites(q, fail)
          IN  /\ pumps' = [pumps EXCEPT ![d] = q]
              /\ link' = [link EXCEPT ![d] = "open"]
              /\ lastWrites' = ws
              /\ dev' = ApplyWrites(dev, ws)
              /\ lastCall' = Call("connect", Unset, Unset, FALSE, "True", Unset)
    \/ /\ p.kind = "hw"
       /\ outcome = "refused" /\ fail = 0
       /\ pumps' = [pumps EXCEPT ![d].client = d]
       /\ link' = [link EXCEPT ![d] = "closed"]
       /\ lastWrites' = <<>>
       /\ lastCall' = Call("connect", Unset, Unset, FALSE, "False", Unset)
       /\ UNCHANGED dev
    \/ /\ p.kind = "hw"
       /\ outcome = "raised" /\ fail = 0
       /\ lastWrites' = <<>>
       /\ lastCall' = Call("connect", Unset, Unset, FALSE, "False", Unset)
       /\ UNCHANGED <<pumps, dev, link>>

\* d.set_client(other.client), as the entry point attaches the second pump.
DrvSetClient(d, other, fail) ==
    LET p == pumps[d]
        c == pumps[other].client
    IN  /\ d # other
        /\ \/ /\ p.kind = "sim"
              /\ fail = 0
              /\ pumps' = [pumps EXCEPT ![d] = SimSetClient(p, c)]
              /\ lastWrites' = <<>>
              /\ UNCHANGED <<dev, link>>
           \/ /\ p.kind = "hw"
              /\ LET q == [p EXCEPT !.client = c, !.connected = TRUE]
                     ws == HwInitWrites(q, EffectiveFail(q, fail))
                 IN  /\ pumps' = [pumps EXCEPT ![d] = q]
                     /\ lastWrites' = ws
                     /\ dev' = ApplyWrites(dev, ws)
                     /\ UNCHANGED link
        /\ lastCall' = Call("set_client", Unset, Unset, FALSE, None, Unset)

\* d.run(rpm, duration, reverse)
DrvRun(d, rpm, duration, reverse, fail, recFail) ==
    LET p == pumps[d] IN
    \/ /\ p.kind = "sim"
       /\ fail = 0 /\ ~recFail
       /\ LET r == SimRun(p, rpm, duration, reverse)
          IN  /\ pumps' = [pumps EXCEPT ![d] = r.pump]
              /\ lastCall' = Call("run", rpm, duration, reverse, Returned(r.ok), r.cmd)
       /\ lastWrites' = <<>>
       /\ UNCHANGED <<dev, link>>
    \/ /\ p.kind = "hw"
       /\ (fail = 0 => ~recFail)
       /\ LET r == HwRun(p, rpm, duration, reverse, EffectiveFail(p, fail),
                         recFail \/ ~LinkUsable(p.client))
          IN  /\ lastWrites' = r.writes
              /\ dev' = ApplyWrites(dev, r.writes)
              /\ lastCall' = Call("run", rpm, duration, reverse, Returned(r.ok), Unset)
       /\ UNCHANGED <<pumps, link>>

\* d.stop()
DrvStop(d, fail) ==
    LET p == pumps[d] IN
    \/ /\ p.kind = "sim"
       /\ fail = 0
       /\ pumps' = [pumps EXCEPT ![d] = SimStop(p)]
       /\ lastWrites' = <<>>
       /\ lastCall' = Call("stop", Unset, Unset, FALSE, None, Unset)
       /\ UNCHANGED <<dev, link>>
    \/ /\ p.kind = "hw"
       /\ LET ws == HwStop(p, EffectiveFail(p, fail))
          IN  /\ lastWrites' = ws
              /\ dev' = ApplyWrites(dev, ws)
       /\ lastCall' = Call("stop", Unset, Unset, FALSE, None, Unset)
       /\ UNCHANGED <<pumps, link>>

\* d.disconnect()
DrvDisconnect(d, fail) ==
    LET p == pumps[d] IN
    \/ /\ p.kind = "sim"
       /\ fail = 0
       /\ pumps' = [pumps EXCEPT ![d] = SimDisconnect(p)]
       /\ lastWrites' = <<>>
       /\ lastCall' = Call("disconnect", Unset, Unset, FALSE, None, Unset)
       /\ UNCHANGED <<dev, link>>
    \/ /\ p.kind = "hw"
       /\ p.client # None
       /\ LET ws == HwStop(p, EffectiveFail(p, fail))
          IN  /\ lastWrites' = ws
              /\ dev' = ApplyWrites(dev, ws)
       /\ link' = [link EXCEPT ![p.client] = "closed"]
       /\ pumps' = [pumps EXCEPT ![d].connected = FALSE]
       /\ lastCall' = Call("disconnect", Unset, Unset, FALSE, None, Unset)
    \/ /\ p.kind = "hw"
       /\ p.client = None
       /\ fail = 0
       /\ lastWrites' = <<>>
       /\ lastCall' = Call("disconnect", Unset, Unset, FALSE, None, Unset)
       /\ UNCHANGED <<pumps, dev, link>>

\* DriverSpec drives one driver, alone on its bus; the other one stays as
\* constructed, so set_client attaches the None client it holds.
DriverUnderTest == "dispenser"

DriverNext ==
    \/ /\ \E outcome \in {"ok", "refused", "raised"}, fail \in 0 .. 3 :
            DrvConnect(DriverUnderTest, outcome, fail)
       /\ UNCHANGED guiVars
    \/ /\ DrvSetClient(DriverUnderTest, "retractor", 0)
       /\ UNCHANGED guiVars
    \/ /\ \E rpm \in RpmRequests, duration \in Durations, reverse \in BOOLEAN,
             fail \in FailAt, recFail \in BOOLEAN :
            DrvRun(DriverUnderTest, rpm, duration, reverse, fail, recFail)
       /\ UNCHANGED guiVars
    \/ /\ \E fail \in 0 .. 1 : DrvStop(DriverUnderTest, fail)
       /\ UNCHANGED guiVars
    \/ /\ \E fail \in 0 .. 1 : DrvDisconnect(DriverUnderTest, fail)
       /\ UNCHANGED guiVars

DriverSpec == DriverInit /\ [][DriverNext]_vars

(***************************************************************************)
(* SharedSpec: two drivers of one class on one link, as the entry point    *)
(* wires them: the dispenser's driver opens the link with connect(), the   *)
(* retractor's driver attaches to it with set_client(dispenser.client).    *)
(* Either driver is then run, stopped and disconnected in any order.       *)
(***************************************************************************)
SharedRpm == 1

SharedNext ==
    \/ /\ \E outcome \in {"ok", "refused", "raised"} :
            DrvConnect("dispenser", outcome, 0)
       /\ UNCHANGED guiVars
    \/ /\ DrvSetClient("retractor", "dispenser", 0)
       /\ UNCHANGED guiVars
    \/ /\ \E d \in PumpNames, reverse \in BOOLEAN :
            DrvRun(d, SharedRpm, Unset, reverse, 0, FALSE)
       /\ UNCHANGED guiVars
    \/ /\ \E d \in PumpNames : DrvStop(d, 0)
       /\ UNCHANGED guiVars
    \/ /\ \E d \in PumpNames : DrvDisconnect(d, 0)
       /\ UNCHANGED guiVars

SharedSpec == DriverInit /\ [][SharedNext]_vars

(***************************************************************************)
(* PumpControlGUI (src/gui.py): the slots of the controlling thread.  A    *)
(* slot runs only while the thread is in its event loop (gui = "idle");    *)
(* gui = "waiting" is operation_finished blocked in operation_thread       *)
(* .wait().  Labels, the progress bar and the spin boxes' enabled state    *)
(* are display only and not modelled; a button is clicked only while it    *)
(* is enabled.  closeEvent ends the program and with it the behaviour; the  *)
(* model follows the application while its window is open.                 *)
(***************************************************************************)
workerVars == <<threads, queue>>

schedVars == <<scheduled_dispense_active, scheduled_timer, next_dispense_time,
               dispense_interval_minutes, dispense_duration_seconds>>

\* a start_operation without its guard (ruled out by C2)
OperationInProgressNever == FALSE

\* if self.current_operation is not None: ... return
OperationInProgress == current_operation # None

\* if self.operation_thread is not None and self.operation_thread.isRunning()
ThreadRunning == operation_thread # 0 /\ isRunning(operation_thread)

\* an operation_finished that does not wait for the thread (ruled out by C1)
WaitNeverBlocks(r) == TRUE

\* operation_thread.wait() returns once the thread has finished
WaitOver(r) == ~isRunning(r)

\* an operation_finished that re-enables every button, schedule or not
\* (ruled out by C12)
ButtonsAfterOperationAllEnabled ==
    [buttons EXCEPT !.fill = TRUE, !.dispense = TRUE, !.retract = TRUE,
                    !.start_scheduled = TRUE, !.stop_scheduled = FALSE,
                    !.stop = FALSE]

\* The buttons as operation_finished leaves them.
ButtonsAfterOperation ==
    IF scheduled_dispense_active
    THEN [buttons EXCEPT !.fill = FALSE, !.dispense = TRUE, !.retract = FALSE,
                         !.stop_scheduled = TRUE, !.stop = FALSE]
    ELSE [buttons EXCEPT !.fill = TRUE, !.dispense = TRUE, !.retract = TRUE,
                         !.start_scheduled = TRUE, !.stop_scheduled = FALSE,
                         !.stop = FALSE]

\* start_operation(operation_name, custom_duration); the rest of the state is
\* the caller's.  The model creates at most MaxRuns threads.
start_operation(operation_name, custom_duration) ==
    IF OperationInProgress
    THEN UNCHANGED <<current_operation, operation_thread, buttons, threads, nruns>>
    ELSE /\ nruns < MaxRuns
         /\ current_operation' = operation_name
         /\ buttons' = [buttons EXCEPT !.fill = FALSE, !.dispense = FALSE,
                                       !.retract = FALSE, !.stop = TRUE,
                                       !.start_scheduled = FALSE,
                                       !.stop_scheduled = FALSE]
         /\ threads' = [threads EXCEPT ![nruns + 1] =
                           NewThread(operation_name, custom_duration)]
         /\ operation_thread' = nruns + 1
         /\ nruns' = nruns + 1

\* fill(), dispense(), drain(): the three operation buttons
Fill ==
    /\ gui = "idle" /\ buttons.fill
    /\ start_operation("Fill", Unset)
    /\ UNCHANGED <<stop_timer, schedVars, gui, handled, queue, now, ticked, pumps, busVars>>

Dispense ==
    /\ gui = "idle" /\ buttons.dispense
    /\ start_operation("Dispense", Unset)
    /\ UNCHANGED <<stop_timer, schedVars, gui, handled, queue, now, ticked, pumps, busVars>>

Drain ==
    /\ gui = "idle" /\ buttons.retract
    /\ start_operation("Drain", Unset)
    /\ UNCHANGED <<stop_timer, schedVars, gui, handled, queue, now, ticked, pumps, busVars>>

\* a scheduler that leaves next_dispense_time as it was (ruled out by C14)
NextDispenseTimeKept(interval) == next_dispense_time

\* QDateTime.currentDateTime().addSecs(interval * 60)
NextDispenseTime(interval) == now + interval * SecsPerMinute

\* a start_scheduled_dispensing without its two guards (ruled out by C11)
ScheduleStartRejectedNever == FALSE

\* the two early returns of start_scheduled_dispensing
ScheduleStartRejected == OperationInProgress \/ scheduled_dispense_active

\* start_scheduled_dispensing(), with the values the two spin boxes hold:
\* the method itself, whoever calls it
start_scheduled_dispensing_slot(interval, duration) ==
    /\ gui = "idle"
    /\ IF ScheduleStartRejected
       THEN UNCHANGED <<schedVars, buttons>>
       ELSE /\ dispense_interval_minutes' = interval
            /\ dispense_duration_seconds' = duration
            /\ next_dispense_time' = NextDispenseTime(interval)
            /\ scheduled_timer' = TRUE
            /\ scheduled_dispense_active' = TRUE
            /\ buttons' = [buttons EXCEPT !.start_scheduled = FALSE,
                                          !.stop_scheduled = TRUE,
                                          !.fill = FALSE, !.retract = FALSE]
    /\ UNCHANGED <<current_operation, operation_thread, stop_timer, gui, nruns,
                   handled, workerVars, now, ticked, pumps, busVars>>

\* the Start Scheduled button: clicked only while enabled
start_scheduled_dispensing(interval, duration) ==
    /\ buttons.start_scheduled
    /\ start_scheduled_dispensing_slot(interval, duration)

\* a stop_scheduled_dispensing that leaves the timer armed (ruled out by C15)
stop_scheduled_dispensing_timer_kept ==
    /\ gui = "idle"
    /\ IF ~scheduled_dispense_active
       THEN UNCHANGED <<schedVars, buttons>>
       ELSE /\ scheduled_dispense_active' = FALSE
            /\ buttons' = [buttons EXCEPT !.start_scheduled = TRUE,
                                          !.stop_scheduled = FALSE,
                                          !.fill = TRUE, !.retract = TRUE]
            /\ UNCHANGED <<scheduled_timer, next_dispense_time,
                           dispense_interval_minutes, dispense_duration_seconds>>
    /\ UNCHANGED <<current_operation, operation_thread, stop_timer, gui, nruns,
                   handled, workerVars, now, ticked, pumps, busVars>>

\* stop_scheduled_dispensing(): the method itself, whoever calls it
stop_scheduled_dispensing_slot ==
    /\ gui = "idle"
    /\ IF ~scheduled_dispense_active
       THEN UNCHANGED <<schedVars, buttons>>
       ELSE /\ scheduled_timer' = FALSE
            /\ scheduled_dispense_active' = FALSE
            /\ buttons' = [buttons EXCEPT !.start_scheduled = TRUE,
                                          !.stop_scheduled = FALSE,
                                          !.fill = TRUE, !.retract = TRUE]
            /\ UNCHANGED <<next_dispense_time, dispense_interval_minutes,
                           dispense_duration_seconds>>
    /\ UNCHANGED <<current_operation, operation_thread, stop_timer, gui, nruns,
                   handled, workerVars, now, ticked, pumps, busVars>>

\* the Stop Scheduled button: clicked only while enabled
stop_scheduled_dispensing ==
    /\ buttons.stop_scheduled
    /\ stop_scheduled_dispensing_slot

\* execute_scheduled_dispense(): the recurring timer's timeout
execute_scheduled_dispense ==
    /\ gui = "idle" /\ scheduled_timer
    /\ IF ~scheduled_dispense_active
       THEN UNCHANGED <<current_operation, operation_thread, buttons, threads, nruns,
                        next_dispense_time>>
       ELSE /\ start_operation("Dispense", dispense_duration_seconds)
            /\ next_dispense_time' = NextDispenseTime(dispense_interval_minutes)
    /\ UNCHANGED <<stop_timer, scheduled_dispense_active, scheduled_timer,
                   dispense_interval_minutes, dispense_duration_seconds, gui, handled,
                   queue, now, ticked, pumps, busVars>>

\* a stop_operation of the thread that clears the flag and leaves the pumps
\* to the sequencer (ruled out by C19)
ThreadStopOperationFlagOnly(r) ==
    /\ threads' = [threads EXCEPT ![r].is_running = FALSE]
    /\ pumps' = pumps

\* PumpOperationThread.stop_operation(), called on the controlling thread
ThreadStopOperation(r) ==
    /\ threads' = [threads EXCEPT ![r].is_running = FALSE]
    /\ pumps' = [dispenser |-> SimStop(pumps.dispenser),
                 retractor |-> SimStop(pumps.retractor)]

\* stop_operation(): the stop button
stop_operation ==
    /\ gui = "idle" /\ buttons.stop
    /\ IF ThreadRunning
       THEN /\ ThreadStopOperation(operation_thread)
            /\ buttons' = [buttons EXCEPT !.stop = FALSE]
            /\ stop_timer' = "armed"
       ELSE UNCHANGED <<threads, pumps, buttons, stop_timer>>
    /\ UNCHANGED <<current_operation, operation_thread, schedVars, gui, nruns, handled,
                   queue, now, ticked, busVars>>

\* an operation_finished that keeps its reference to the thread (ruled out
\* by C18)
FinishOperationThreadKept ==
    /\ operation_thread' = operation_thread
    /\ current_operation' = None
    /\ buttons' = ButtonsAfterOperation

\* operation_finished after its wait(): the thread is dropped, the GUI reset
FinishOperation ==
    /\ operation_thread' = 0
    /\ current_operation' = None
    /\ buttons' = ButtonsAfterOperation

\* update_progress(current_time, total_time): the progress_update slot
update_progress ==
    /\ gui = "idle"
    /\ queue # <<>> /\ Head(queue).type = "progress"
    /\ queue' = Tail(queue)
    /\ UNCHANGED <<guiOnly, threads, now, ticked, pumps, busVars>>

\* an operation_finished that leaves the watchdog armed (ruled out by C29)
operation_finished_timer_kept ==
    /\ gui = "idle"
    /\ queue # <<>> /\ Head(queue).type = "completed"
    /\ queue' = Tail(queue)
    /\ handled' = [handled EXCEPT ![Head(queue).run] = @ + 1]
    /\ stop_timer' = stop_timer
    /\ IF operation_thread # 0 /\ ~WaitOver(operation_thread)
       THEN /\ gui' = "waiting"
            /\ UNCHANGED <<current_operation, operation_thread, buttons>>
       ELSE /\ FinishOperation
            /\ UNCHANGED gui
    /\ UNCHANGED <<schedVars, nruns, threads, now, ticked, pumps, busVars>>

\* operation_finished(operation_name, success): the operation_completed slot
operation_finished ==
    /\ gui = "idle"
    /\ queue # <<>> /\ Head(queue).type = "completed"
    /\ queue' = Tail(queue)
    /\ handled' = [handled EXCEPT ![Head(queue).run] = @ + 1]
    /\ stop_timer' = None
    /\ IF operation_thread # 0 /\ ~WaitOver(operation_thread)
       THEN /\ gui' = "waiting"
            /\ UNCHANGED <<current_operation, operation_thread, buttons>>
       ELSE /\ FinishOperation
            /\ UNCHANGED gui
    /\ UNCHANGED <<schedVars, nruns, threads, now, ticked, pumps, busVars>>

\* operation_thread.wait() returns and operation_finished runs to its end
wait_returns ==
    /\ gui = "waiting"
    /\ WaitOver(operation_thread)
    /\ gui' = "idle"
    /\ FinishOperation
    /\ UNCHANGED <<stop_timer, schedVars, nruns, handled, workerVars, now, ticked,
                   pumps, busVars>>

\* _force_stop_cleanup(): the watchdog's timeout.  terminate() ends the
\* thread where it stands; operation_finished("Unknown", False) is called
\* directly and finds the thread finished.
force_stop_cleanup ==
    /\ gui = "idle" /\ stop_timer = "armed"
    /\ IF ThreadRunning
       THEN /\ threads' = [threads EXCEPT ![operation_thread] = DeadThread]
            /\ handled' = [handled EXCEPT ![operation_thread] = @ + 1]
            /\ FinishOperation
       ELSE UNCHANGED <<threads, handled, current_operation, operation_thread, buttons>>
    /\ stop_timer' = None
    /\ UNCHANGED <<schedVars, gui, nruns, queue, now, ticked, pumps, busVars>>

(***************************************************************************)
(* Spec: the program as the entry point builds it: two simulated pumps,    *)
(* the dispenser connected, the retractor attached to the dispenser's      *)
(* client.                                                                 *)
(***************************************************************************)
Init ==
    /\ pumps = [dispenser |-> SimConnect(NewDriver("sim", DISPENSER_UNIT)),
                retractor |-> SimSetClient(NewDriver("sim", RETRACTOR_UNIT),
                                           SimConnect(NewDriver("sim", DISPENSER_UNIT)).client)]
    /\ dev = [u \in Units |-> NewDevice]
    /\ link = [n \in PumpNames |-> "none"]
    /\ lastWrites = <<>>
    /\ lastCall = Call("none", Unset, Unset, FALSE, None, Unset)
    /\ InitGuiIdle

Worker ==
    \E r \in RunIds :
        \/ WorkerBegin(r)
        \/ WorkerRunRetractor(r)
        \/ WorkerRunDispenser(r)
        \/ WorkerLoopTest(r)
        \/ WorkerEmitProgress(r)
        \/ WorkerCheck(r)
        \/ WorkerStopPump(r)
        \/ WorkerEmitCompleted(r)
        \/ WorkerReturn(r)

Next ==
    \/ Fill
    \/ Dispense
    \/ Drain
    \/ \E interval \in 1 .. MaxInterval, duration \in 1 .. MaxSchedDuration :
          start_scheduled_dispensing(interval, duration)
    \/ stop_scheduled_dispensing
    \/ execute_scheduled_dispense
    \/ stop_operation
    \/ update_progress
    \/ operation_finished
    \/ wait_returns
    \/ force_stop_cleanup
    \/ Worker
    \/ Tick

Spec == Init /\ [][Next]_vars

(***************************************************************************)
(* FairSpec: the Qt event loop delivers every queued signal and fires an   *)
(* armed watchdog; a wait() returns once its thread has finished; a        *)
(* thread that has emitted its completion signal returns from run().       *)
(* Nothing is assumed about the other steps of the worker thread: it may   *)
(* hang anywhere up to its completion signal.                              *)
(***************************************************************************)
FairSpec ==
    /\ Spec
    /\ WF_vars(update_progress)
    /\ WF_vars(operation_finished)
    /\ WF_vars(wait_returns)
    /\ WF_vars(force_stop_cleanup)
    /\ WF_vars(\E r \in RunIds : WorkerReturn(r))

(***************************************************************************)
(* LiveSpec: the program while nobody presses the stop button (the         *)
(* watchdog is then never armed).  The event loop delivers the queued      *)
(* signals and a wait() returns once its thread has finished; the worker   *)
(* thread is scheduled whenever it can take a step; the clock advances.    *)
(* Nothing is assumed about the other buttons and the scheduler's timer.   *)
(***************************************************************************)
EventLoop == update_progress \/ operation_finished \/ wait_returns

LiveNext ==
    \/ Fill
    \/ Dispense
    \/ Drain
    \/ \E interval \in 1 .. MaxInterval, duration \in 1 .. MaxSchedDuration :
          start_scheduled_dispensing(interval, duration)
    \/ stop_scheduled_dispensing
    \/ execute_scheduled_dispense
    \/ EventLoop
    \/ Worker
    \/ Tick

LiveSpec ==
    /\ Init
    /\ [][LiveNext]_vars
    /\ WF_vars(EventLoop)
    /\ WF_vars(Worker)
    /\ WF_vars(Tick)

(***************************************************************************)
(* SlotSpec: Spec with the two scheduler methods also called directly,     *)
(* whatever the state of their buttons.  Through the buttons alone the     *)
(* early returns of both methods are never taken: each button is disabled  *)
(* in exactly the states its method would refuse.                          *)
(***************************************************************************)
SlotNext ==
    \/ Next
    \/ \E interval \in 1 .. MaxInterval, duration \in 1 .. MaxSchedDuration :
          start_scheduled_dispensing_slot(interval, duration)
    \/ stop_scheduled_dispensing_slot

SlotSpec == Init /\ [][SlotNext]_vars

(***************************************************************************)
(* Properties.                                                             *)
(***************************************************************************)
LiveThreads == {r \in RunIds : isRunning(r)}

Idle == current_operation = None /\ operation_thread = 0 /\ stop_timer = None

\* C1: at most one thread object is running an operation in any reachable
\* state, and while one runs it is the GUI's operation_thread and
\* current_operation is not None.
C1_MutualExclusion ==
    /\ Cardinality(LiveThreads) <= 1
    /\ \A r \in LiveThreads : operation_thread = r /\ current_operation # None

\* C1 witness: a second run is live while scheduled dispensing is active.
C1_Witness ==
    \E r \in LiveThreads : r > 1 /\ scheduled_dispense_active /\ threads[r].pc = "loop1"

\* A start request: one of the three operation buttons or the scheduled timer.
StartRequest == Fill \/ Dispense \/ Drain \/ execute_scheduled_dispense

\* C2: a start request made while an operation is in progress creates no
\* thread and leaves current_operation, the running thread, its flag, the
\* watchdog and both pumps as they were.
C2_RejectedStartChangesNothing ==
    [][(StartRequest /\ current_operation # None)
          => UNCHANGED <<current_operation, operation_thread, threads, nruns,
                         stop_timer, pumps>>]_vars

\* C2 witness: the scheduled timer has fired during a manual Dispense (the
\* next dispense time was recomputed after the run read its start time) and
\* the manual run goes on.
C2_Witness ==
    /\ current_operation = "Dispense"
    /\ operation_thread # 0
    /\ threads[operation_thread].pc \in {"loop1", "emit1"}
    /\ threads[operation_thread].custom_duration = Unset
    /\ scheduled_dispense_active
    /\ now > threads[operation_thread].start_time
    /\ next_dispense_time = now + dispense_interval_minutes * SecsPerMinute

\* C3 (as claimed): a completion signal emitted after stop_operation cleared
\* the thread's flag reports success = False.
C3_StoppedRunReportsFailure ==
    \A i \in DOMAIN queue :
        (queue[i].type = "completed" /\ ~queue[i].flag) => ~queue[i].success

\* C4 (as claimed): no run has more than one terminal event handled, and a
\* run that is over has had exactly one.
C4_ExactlyOneTerminalEvent ==
    \A r \in RunIds :
        /\ handled[r] <= 1
        /\ (/\ threads[r].pc = "finished"
            /\ operation_thread # r
            /\ \A i \in DOMAIN queue : ~(queue[i].type = "completed" /\ queue[i].run = r))
           => handled[r] = 1

\* C5 (as claimed): once the stop button has armed the watchdog, the GUI
\* comes back to idle.
C5_StopLeadsToIdle == (stop_timer = "armed") ~> Idle

\* The forced-termination branch of _force_stop_cleanup.
ForcedTermination == ThreadRunning /\ force_stop_cleanup

\* C6 (as claimed): after the forced termination neither pump is running.
C6_ForcedTerminationStopsPumps ==
    [][ForcedTermination
          => (~pumps'.dispenser.is_running /\ ~pumps'.retractor.is_running)]_vars

\* Progress events of a run still alive, as they sit in the queue.
C7_QueuedProgress ==
    \A i \in DOMAIN queue :
        (queue[i].type = "progress" /\ isRunning(queue[i].run))
           => LET t == threads[queue[i].run]
              IN  /\ queue[i].total = PhaseDuration(t) + SleepTime(t)
                  /\ queue[i].elapsed <= queue[i].total
                  /\ queue[i].elapsed <= t.last_elapsed
                  /\ \A j \in DOMAIN queue :
                        (j < i /\ queue[j].type = "progress" /\ queue[j].run = queue[i].run)
                           => queue[j].elapsed <= queue[i].elapsed

Driver == pumps[DriverUnderTest]

TargetWrites ==
    {i \in DOMAIN lastWrites :
        lastWrites[i].op = "reg" /\ lastWrites[i].addr = REG_TARGET_RPM}

\* The last call was run(rpm, ...) with rpm above max_rpm on a connected driver
\* (run never changes connected, so the driver was connected when called).
RanAboveMax ==
    /\ lastCall.op = "run"
    /\ lastCall.rpm > Driver.max_rpm
    /\ Driver.connected

\* C8: a run above max_rpm commands exactly max_rpm: the simulated driver
\* succeeds with current_rpm = max_rpm, a hardware driver writes max_rpm (in
\* the protocol's unit) and nothing else to the target-speed register, once
\* when the call succeeds; and in every state the speed a driver holds or a
\* pump was given is at most max_rpm.
C8_RpmClamped ==
    /\ RanAboveMax /\ Driver.kind = "sim"
          => /\ lastCall.ret = "True"
             /\ lastCall.cmd = Driver.max_rpm
             /\ (lastCall.duration = Unset => Driver.current_rpm = Driver.max_rpm)
    /\ RanAboveMax /\ Driver.kind = "hw"
          => /\ \A i \in TargetWrites :
                   lastWrites[i].value = Driver.max_rpm * RpmScale
             /\ (lastCall.ret = "True"
                   => /\ Cardinality(TargetWrites) = 1
                      /\ dev[Driver.unit_id].target_rpm = Driver.max_rpm * RpmScale)
    /\ \A n \in PumpNames :
          /\ pumps[n].current_rpm <= pumps[n].max_rpm
          /\ dev[pumps[n].unit_id].target_rpm <= pumps[n].max_rpm * RpmScale
    /\ \A i \in TargetWrites : lastWrites[i].value <= Driver.max_rpm * RpmScale

\* C8 witness: a hardware run above max_rpm has succeeded and the pump holds
\* max_rpm as its target.
C8_Witness ==
    /\ RanAboveMax /\ Driver.kind = "hw"
    /\ lastCall.rpm = MaxRpm + RpmOver
    /\ lastCall.ret = "True"
    /\ dev[Driver.unit_id].target_rpm = MaxRpm * RpmScale
    /\ dev[Driver.unit_id].coil

\* C9: run with a negative speed on a connected driver returns False, writes
\* nothing to the device and changes neither the driver nor the pump.
C9_NegativeRpmRejected ==
    [][(lastCall'.op = "run" /\ lastCall'.rpm < 0 /\ Driver.connected)
          => /\ lastCall'.ret = "False"
             /\ lastWrites' = <<>>
             /\ UNCHANGED <<pumps, dev, link>>]_vars

\* C9 witness: a negative run was rejected while the pump was running in
\* reverse at full speed, and it still is.
C9_Witness ==
    /\ lastCall.op = "run" /\ lastCall.rpm < 0 /\ lastCall.ret = "False"
    /\ Driver.connected
    /\ \/ /\ Driver.kind = "sim"
          /\ Driver.is_running /\ Driver.current_rpm = MaxRpm
          /\ Driver.direction = "CCW"
       \/ /\ Driver.kind = "hw"
          /\ dev[Driver.unit_id].coil
          /\ dev[Driver.unit_id].target_rpm = MaxRpm * RpmScale
          /\ dev[Driver.unit_id].direction = DIRECTION_CCW

\* The pump of the driver under test is stopped, as far as the driver can tell.
Stopped ==
    IF Driver.kind = "sim" THEN ~Driver.is_running ELSE ~dev[Driver.unit_id].coil

\* C10: stop() returns normally from every state; on a driver that is not
\* connected it writes nothing and changes nothing; on a stopped driver, and
\* when it follows another stop(), it leaves the driver as it was (and the
\* pump, when that is stopped).
C10_StopIdempotent ==
    [][lastCall'.op = "stop"
          => /\ lastCall'.ret = None
             /\ ~Driver.connected
                   => (lastWrites' = <<>> /\ UNCHANGED <<pumps, dev, link>>)
             /\ Stopped => UNCHANGED <<pumps, dev, link>>
             /\ lastCall.op = "stop" => UNCHANGED <<pumps, link>>]_vars

\* C10 witness: stop() was called on a hardware driver after its disconnect
\* (whose own stop failed): the client is still held, nothing was written and
\* the pump is as it was.
C10_Witness ==
    /\ lastCall.op = "stop"
    /\ Driver.kind = "hw"
    /\ ~Driver.connected /\ Driver.client # None
    /\ lastWrites = <<>>
    /\ dev[Driver.unit_id].coil

(***************************************************************************)
(* Properties of scheduled dispensing.                                     *)
(***************************************************************************)
\* A call of start_scheduled_dispensing, through the button or directly.
StartScheduledCall ==
    \E interval \in 1 .. MaxInterval, duration \in 1 .. MaxSchedDuration :
        start_scheduled_dispensing_slot(interval, duration)

\* C11: a call of start_scheduled_dispensing made while an operation is in
\* progress or while scheduled dispensing is active changes nothing (active
\* flag, interval, duration, next dispense time, timer, buttons); scheduled
\* dispensing becomes active only with no operation in progress, and while it
\* stays active its interval, duration and timer are not set again.
C11_ScheduleStartRejected ==
    [][/\ (StartScheduledCall /\ (current_operation # None \/ scheduled_dispense_active))
             => UNCHANGED <<schedVars, buttons, current_operation, operation_thread>>
       /\ (~scheduled_dispense_active /\ scheduled_dispense_active')
             => (current_operation = None /\ scheduled_timer')
       /\ (scheduled_dispense_active /\ scheduled_dispense_active')
             => UNCHANGED <<dispense_interval_minutes, dispense_duration_seconds,
                            scheduled_timer>>]_vars

\* C11 witness: scheduled dispensing is active (entered by an accepted
\* start), a manual Dispense is running and the method can be called (the
\* controlling thread is in its event loop) though its button is disabled:
\* the state in which a start is refused on both grounds.
C11_Witness ==
    /\ scheduled_dispense_active /\ scheduled_timer
    /\ next_dispense_time = dispense_interval_minutes * SecsPerMinute
    /\ current_operation = "Dispense"
    /\ gui = "idle" /\ ~buttons.start_scheduled
    /\ operation_thread # 0
    /\ threads[operation_thread].pc = "loop1"
    /\ threads[operation_thread].custom_duration = Unset

\* C12: scheduled dispensing is never active while a Fill or a Drain is in
\* progress: neither as the current operation nor as a thread still running.
C12_NoFillOrDrainWhileScheduled ==
    scheduled_dispense_active
       => /\ current_operation \notin {"Fill", "Drain"}
          /\ \A r \in LiveThreads : threads[r].operation_name = "Dispense"

\* C12 witness: the schedule is active, its Dispense has finished and been
\* handled, and a second, manual Dispense is running with the Fill and Drain
\* buttons disabled.
C12_Witness ==
    /\ scheduled_dispense_active
    /\ handled[1] = 1 /\ threads[1].pc = "finished"
    /\ current_operation = "Dispense"
    /\ operation_thread = 2
    /\ threads[2].custom_duration = Unset
    /\ isRunning(2)
    /\ ~buttons.fill /\ ~buttons.retract

\* The duration a Dispense thread is to use: the one it was created with, or
\* the configured dispense_duration when it was created with none.
DispenseDurationOf(r) ==
    IF threads[r].custom_duration # Unset
    THEN threads[r].custom_duration
    ELSE DispenseDuration

\* A Dispense thread inside run_dispense.
InDispense(r) ==
    /\ threads[r].operation_name = "Dispense"
    /\ threads[r].pc \notin {"new", "started", "finished"}

\* C13: a Dispense created by the scheduled timer carries the schedule's
\* duration and a manual one carries none; every Dispense plans
\* total = its duration + operation_sleep, reports that total in its progress
\* events, and leaves its timed phase for the settle phase only once its
\* duration has elapsed.
C13_ScheduledDurationUsed ==
    /\ [][(execute_scheduled_dispense /\ nruns' = nruns + 1)
             => /\ threads'[nruns'].operation_name = "Dispense"
                /\ threads'[nruns'].custom_duration = dispense_duration_seconds]_vars
    /\ [][(Dispense /\ nruns' = nruns + 1)
             => /\ threads'[nruns'].operation_name = "Dispense"
                /\ threads'[nruns'].custom_duration = Unset]_vars
    /\ [](\A r \in RunIds :
            InDispense(r)
               => /\ threads[r].total_time = DispenseDurationOf(r) + OperationSleep
                  /\ threads[r].pc \in {"stop_dispenser", "loop2", "emit2", "emit_ok"}
                        => now >= threads[r].start_time + DispenseDurationOf(r)
                  /\ threads[r].pc = "emit1"
                        => now <= threads[r].start_time + DispenseDurationOf(r)
                  /\ \A i \in DOMAIN queue :
                        (queue[i].type = "progress" /\ queue[i].run = r)
                           => queue[i].total = DispenseDurationOf(r) + OperationSleep)

\* C13 witness: a scheduled Dispense is in its settle phase after exactly the
\* schedule's duration, which is shorter than the configured one.
C13_Witness ==
    \E r \in RunIds :
        /\ InDispense(r)
        /\ scheduled_dispense_active
        /\ threads[r].custom_duration = dispense_duration_seconds
        /\ threads[r].custom_duration < DispenseDuration
        /\ threads[r].pc = "loop2"
        /\ now = threads[r].start_time + threads[r].custom_duration
        /\ threads[r].total_time = dispense_duration_seconds + OperationSleep

\* C14: every timeout of the scheduled timer taken while the schedule is
\* active sets next_dispense_time to now + interval, whether or not the
\* Dispense was started; so does the step that makes the schedule active; and
\* no other step (a run ending, stopped or terminated) changes it.
C14_NextFireRecomputed ==
    [][/\ (execute_scheduled_dispense /\ scheduled_dispense_active)
             => next_dispense_time' = now + dispense_interval_minutes * SecsPerMinute
       /\ (~scheduled_dispense_active /\ scheduled_dispense_active')
             => next_dispense_time' = now + dispense_interval_minutes' * SecsPerMinute
       /\ next_dispense_time' # next_dispense_time
             => (execute_scheduled_dispense \/ StartScheduledCall)]_vars

\* C14 witness: a timeout taken after the clock had advanced recomputed
\* next_dispense_time; the run of that time has since been stopped and
\* handled, and the value stands.
C14_Witness ==
    /\ scheduled_dispense_active
    /\ nruns = 1 /\ handled[1] = 1 /\ threads[1].pc = "finished"
    /\ current_operation = None /\ queue = <<>>
    /\ next_dispense_time > dispense_interval_minutes * SecsPerMinute
    /\ next_dispense_time <= now + dispense_interval_minutes * SecsPerMinute

\* C15: stop_scheduled_dispensing called while the schedule is active stops
\* the timer and clears the active flag; called while it is not active it
\* changes nothing; the timer is armed only while the schedule is active, and
\* no thread is created with a schedule's duration while it is not.
C15_ScheduleStop ==
    /\ [][/\ (stop_scheduled_dispensing_slot /\ scheduled_dispense_active)
                => (~scheduled_timer' /\ ~scheduled_dispense_active')
          /\ (stop_scheduled_dispensing_slot /\ ~scheduled_dispense_active)
                => UNCHANGED <<schedVars, buttons, current_operation, operation_thread,
                               threads, nruns>>
          /\ (~scheduled_dispense_active /\ nruns' = nruns + 1)
                => threads'[nruns'].custom_duration = Unset]_vars
    /\ [](scheduled_timer => scheduled_dispense_active)

\* C15 witness: the schedule was stopped while its own Dispense was running,
\* and that run is the only one: the timer is off, the flag cleared, and the
\* run goes on.
C15_Witness ==
    /\ ~scheduled_dispense_active /\ ~scheduled_timer
    /\ next_dispense_time # Unset
    /\ nruns = 1
    /\ current_operation = "Dispense"
    /\ threads[1].custom_duration = dispense_duration_seconds
    /\ threads[1].pc = "loop1"
    /\ buttons.start_scheduled /\ buttons.fill

(***************************************************************************)
(* Properties of the three sequences.  A thread whose flag is still set    *)
(* has not been stopped: stop_operation clears the flag of a thread that   *)
(* is past `self.is_running = True`, and nothing sets it again.            *)
(***************************************************************************)
Running(n) == pumps[n].is_running

\* Thread r is inside run_fill or run_dispense and has not been stopped.
InFillOrDispense(r) ==
    /\ threads[r].operation_name \in {"Fill", "Dispense"}
    /\ threads[r].pc \notin {"new", "started", "finished"}
    /\ threads[r].is_running

\* The duration of the timed phase of thread r, from the configuration.
DurationOf(r) ==
    IF threads[r].operation_name = "Fill" THEN FillDuration
    ELSE IF threads[r].operation_name = "Dispense" THEN DispenseDurationOf(r)
    ELSE DrainDuration

\* C16: in a Fill or Dispense that has not been stopped, the retractor runs
\* in reverse and the dispenser forward through the timed phase; the
\* dispenser is stopped once the duration has elapsed, with the retractor
\* still running; the retractor is stopped once operation_sleep more has
\* elapsed; and the completion signal is (name, True), emitted with both
\* pumps stopped.
C16_FillSequence ==
    /\ [](\A r \in RunIds :
            InFillOrDispense(r)
               => LET pc == threads[r].pc
                      t0 == threads[r].start_time
                  IN  /\ pc = "run_dispenser"
                            => Running("retractor") /\ pumps.retractor.direction = "CCW"
                      /\ pc \in {"loop1", "emit1", "check", "stop_dispenser"}
                            => /\ Running("retractor") /\ pumps.retractor.direction = "CCW"
                               /\ Running("dispenser") /\ pumps.dispenser.direction = "CW"
                      /\ pc \in {"stop_dispenser", "loop2", "emit2", "stop_retractor", "emit_ok"}
                            => now >= t0 + DurationOf(r)
                      /\ pc \in {"loop2", "emit2", "stop_retractor"}
                            => /\ ~Running("dispenser")
                               /\ Running("retractor") /\ pumps.retractor.direction = "CCW"
                      /\ pc \in {"stop_retractor", "emit_ok"}
                            => now >= t0 + DurationOf(r) + OperationSleep
                      /\ pc = "emit_ok"
                            => ~Running("dispenser") /\ ~Running("retractor")
                      /\ pc \notin {"cancel_stop_dispenser", "cancel_stop_retractor",
                                    "emit_fail"})
    /\ [][\A r \in RunIds :
             (WorkerEmitCompleted(r) /\ InFillOrDispense(r))
                => /\ ~Running("dispenser") /\ ~Running("retractor")
                   /\ queue' = Append(queue, CompletedEvent(r, threads[r].operation_name,
                                                            TRUE, TRUE))]_vars

\* C16 witness: a Fill that was never stopped has emitted ("Fill", True)
\* after duration + operation_sleep, with both pumps stopped.
C16_Witness ==
    \E r \in RunIds :
        /\ threads[r].operation_name = "Fill"
        /\ threads[r].pc = "return"
        /\ threads[r].is_running
        /\ now = threads[r].start_time + FillDuration + OperationSleep
        /\ ~Running("dispenser") /\ ~Running("retractor")
        /\ \E i \in DOMAIN queue :
              queue[i] = CompletedEvent(r, "Fill", TRUE, TRUE)

\* Thread r is inside run_drain and has not been stopped.
InDrain(r) ==
    /\ threads[r].operation_name = "Drain"
    /\ threads[r].pc \notin {"new", "started", "finished"}
    /\ threads[r].is_running

\* C17: in a Drain that has not been stopped, both pumps run in reverse
\* through the one timed phase of drain_duration; there is no settle phase;
\* both pumps are stopped, retractor first, once the duration has elapsed;
\* and the completion signal is ("Drain", True), emitted with both stopped.
C17_DrainSequence ==
    /\ [](\A r \in RunIds :
            InDrain(r)
               => LET pc == threads[r].pc
                      t0 == threads[r].start_time
                  IN  /\ threads[r].total_time = DrainDuration
                      /\ pc = "run_dispenser"
                            => Running("retractor") /\ pumps.retractor.direction = "CCW"
                      /\ pc \in {"loop1", "emit1", "check", "stop_retractor"}
                            => /\ Running("retractor") /\ pumps.retractor.direction = "CCW"
                               /\ Running("dispenser") /\ pumps.dispenser.direction = "CCW"
                      /\ pc \in {"stop_retractor", "stop_dispenser", "emit_ok"}
                            => now >= t0 + DrainDuration
                      /\ pc = "stop_dispenser"
                            => ~Running("retractor") /\ Running("dispenser")
                      /\ pc = "emit_ok"
                            => ~Running("dispenser") /\ ~Running("retractor")
                      /\ pc \notin {"loop2", "emit2", "cancel_stop_dispenser",
                                    "cancel_stop_retractor", "emit_fail"})
    /\ [][\A r \in RunIds :
             (WorkerEmitCompleted(r) /\ InDrain(r))
                => /\ ~Running("dispenser") /\ ~Running("retractor")
                   /\ queue' = Append(queue, CompletedEvent(r, "Drain", TRUE, TRUE))]_vars

\* C17 witness: a Drain that was never stopped has emitted ("Drain", True)
\* exactly drain_duration after its start, with both pumps stopped.
C17_Witness ==
    \E r \in RunIds :
        /\ threads[r].operation_name = "Drain"
        /\ threads[r].pc = "return"
        /\ threads[r].is_running
        /\ now = threads[r].start_time + DrainDuration
        /\ ~Running("dispenser") /\ ~Running("retractor")
        /\ \E i \in DOMAIN queue :
              queue[i] = CompletedEvent(r, "Drain", TRUE, TRUE)

(***************************************************************************)
(* Properties of the controlling thread's handling of stop and completion. *)
(***************************************************************************)
\* A step that ends the handling of a terminal event: operation_finished
\* running to its end, at once or after its wait(), and the watchdog's call
\* of operation_finished("Unknown", False) after terminate().
HandlingDone ==
    \/ operation_finished /\ gui' = "idle"
    \/ wait_returns
    \/ ThreadRunning /\ force_stop_cleanup

\* C18: a step that ends the handling of a terminal event leaves the GUI
\* idle (no current operation, no thread held, watchdog disarmed) with the
\* Dispense button enabled, and the Fill and Drain buttons too unless the
\* schedule is active; and a Fill, Dispense or Drain requested in an idle
\* GUI is accepted: it becomes the current operation on a new running thread.
C18_IdleAfterTerminalEvent ==
    /\ [][HandlingDone
             => /\ Idle'
                /\ buttons'.dispense
                /\ ~scheduled_dispense_active => buttons'.fill /\ buttons'.retract]_vars
    /\ [][\A name \in {"Fill", "Dispense", "Drain"} :
             (/\ Idle
              /\ \/ name = "Fill" /\ Fill
                 \/ name = "Dispense" /\ Dispense
                 \/ name = "Drain" /\ Drain)
                => /\ current_operation' = name
                   /\ operation_thread' = nruns + 1
                   /\ threads'[nruns + 1].operation_name = name
                   /\ threads'[nruns + 1].pc = "started"]_vars

\* C18 witness: the terminal event of run 1 has been handled, and the Drain
\* requested next was accepted and started as run 2.
C18_Witness ==
    /\ handled[1] = 1
    /\ threads[1].pc = "finished"
    /\ nruns = 2
    /\ current_operation = "Drain"
    /\ operation_thread = 2
    /\ threads[2].pc = "started"
    /\ queue = <<>>

\* C19: stop_operation with a running thread, taken as one step of the
\* controlling thread, clears that thread's flag, leaves both pumps
\* stopped whatever statement the thread stands at, and arms the watchdog,
\* which any firing disarms again (single shot); stop_operation with no
\* running thread changes nothing.
C19_RequestStop ==
    /\ [][(stop_operation /\ ThreadRunning)
             => /\ ~threads'[operation_thread].is_running
                /\ threads'[operation_thread].pc = threads[operation_thread].pc
                /\ ~pumps'.dispenser.is_running
                /\ ~pumps'.retractor.is_running
                /\ stop_timer' = "armed"
                /\ UNCHANGED <<current_operation, operation_thread, schedVars,
                               queue, handled, nruns>>]_vars
    /\ [][(stop_operation /\ ~ThreadRunning) => UNCHANGED vars]_vars
    /\ [][force_stop_cleanup => stop_timer' = None]_vars

\* C19 witness: a Fill was stopped in its settle phase, where only the
\* retractor was running: the flag is cleared, both pumps are stopped, the
\* watchdog is armed, and the thread has not yet noticed.
C19_Witness ==
    /\ operation_thread # 0
    /\ threads[operation_thread].operation_name = "Fill"
    /\ threads[operation_thread].pc = "emit2"
    /\ ~threads[operation_thread].is_running
    /\ ~Running("dispenser") /\ ~Running("retractor")
    /\ stop_timer = "armed"
    /\ ~buttons.stop

\* C20 (as claimed): the terminal event is the last event of its run: no
\* progress signal is delivered to update_progress for a run whose terminal
\* event, emitted or synthesized by the watchdog, has already been handled.
C20_TerminalEventLast ==
    [][update_progress => handled[Head(queue).run] = 0]_vars

(***************************************************************************)
(* Properties of the progress reports.  The clock of the model counts      *)
(* whole seconds from an instant the threads' start times fall on, so      *)
(* Elapsed is the int(elapsed) the loops emit and `now < end` is the loop  *)
(* test on the real clock.                                                 *)
(***************************************************************************)
\* Thread r has run its sequence to the end without being stopped and is
\* about to emit its completion signal.
AboutToComplete(r) ==
    /\ threads[r].pc = "emit_ok"
    /\ threads[r].is_running
    /\ threads[r].last_elapsed # Unset

\* C21 (as claimed): the last progress a run that was not stopped reports
\* before its completion signal is an elapsed time of at least its total
\* time less one progress tick (a tenth of a second).
C21_FinalProgressAtTotal ==
    \A r \in RunIds :
        AboutToComplete(r)
           => threads[r].last_elapsed * ProgressTicksPerSecond
                 >= threads[r].total_time * ProgressTicksPerSecond - 1

\* C22 (as claimed): next_dispense_time is set exactly while scheduled
\* dispensing is active, and is None whenever it is inactive.
C22_NextFireOnlyWhileActive ==
    scheduled_dispense_active <=> next_dispense_time # Unset

\* C23 (as claimed): while an operation is in progress every command to a
\* pump is a step of the worker thread: no step of the controlling thread
\* changes the state of either pump.
C23_OnlyWorkerCommandsPumps ==
    [][(OperationInProgress /\ pumps' # pumps) => Worker]_vars

\* C24: a start request that arrives while an operation is in progress
\* creates no thread, and none is created for it later: every new thread
\* is created by the step of a start request made while no operation is in
\* progress, a scheduled one by the timer's own step; the handling of a
\* terminal event creates none.
C24_OverlapRejectedNotQueued ==
    /\ [][(StartRequest /\ current_operation # None)
             => UNCHANGED <<threads, nruns, operation_thread, queue>>]_vars
    /\ [][(nruns' # nruns \/ threads' # threads)
             => \/ StartRequest /\ current_operation = None
                \/ nruns' = nruns
                   /\ \A r \in RunIds : threads[r].pc = "new" => threads'[r].pc = "new"]_vars
    /\ [][\A r \in RunIds :
             (threads[r].pc = "new" /\ threads'[r].pc # "new" /\ threads'[r].custom_duration # Unset)
                => execute_scheduled_dispense]_vars
    /\ [][HandlingDone
             => /\ nruns' = nruns
                /\ current_operation' = None
                /\ \A r \in RunIds : ~isRunning(r) => threads'[r] = threads[r]]_vars

\* C24 witness: the timer fired at time 0 and its Dispense started; it
\* fired again a second later, while that Dispense was running, which only
\* moved the next dispense time; the Dispense has run to its end and is
\* still the only thread ever created.
C24_Witness ==
    /\ scheduled_dispense_active
    /\ nruns = 1
    /\ operation_thread = 1
    /\ threads[1].custom_duration # Unset
    /\ threads[1].pc = "return"
    /\ threads[1].start_time = 0
    /\ next_dispense_time > dispense_interval_minutes * SecsPerMinute
    /\ threads[2].pc = "new"

(***************************************************************************)
(* Properties of PumpController's device writes, checked under DriverSpec. *)
(***************************************************************************)
\* The last call was run() on a hardware driver.
HwRan == lastCall.op = "run" /\ Driver.kind = "hw"

\* Write i of the last call asserted the run coil.
CoilAsserted(i) == lastWrites[i].op = "coil" /\ lastWrites[i].value = 1

\* The speed the last run() passed on after its clamp.
ClampedRpm == Clamp(Driver, lastCall.rpm)

\* C25: a successful PumpController.run writes the direction, then the
\* target speed, then asserts the run coil, each once and for its own
\* arguments; in no call, failed ones included, is the coil asserted before
\* both registers were written; with a duration the coil is de-asserted
\* last and the pump is stopped on return, without one the call ends with
\* the coil asserted and the pump running.
C25_RunWriteOrder ==
    /\ (HwRan /\ lastCall.ret = "True")
          => /\ Len(lastWrites) = IF lastCall.duration = Unset THEN 3 ELSE 4
             /\ \A i \in DOMAIN lastWrites : lastWrites[i].ok
             /\ lastWrites[1] = RegWrite(REG_DIRECTION, DirectionCode(lastCall.reverse),
                                         Driver.unit_id, TRUE)
             /\ lastWrites[2] = RegWrite(REG_TARGET_RPM, ClampedRpm * RpmScale,
                                         Driver.unit_id, TRUE)
             /\ lastWrites[3] = CoilWrite(TRUE, Driver.unit_id, TRUE)
             /\ lastCall.duration # Unset
                   => /\ lastWrites[4] = CoilWrite(FALSE, Driver.unit_id, TRUE)
                      /\ ~dev[Driver.unit_id].coil
             /\ lastCall.duration = Unset => dev[Driver.unit_id].coil
             /\ dev[Driver.unit_id].direction = DirectionCode(lastCall.reverse)
             /\ dev[Driver.unit_id].target_rpm = ClampedRpm * RpmScale
    /\ HwRan
          => \A i \in DOMAIN lastWrites :
                CoilAsserted(i)
                   => /\ i = 3
                      /\ lastWrites[1].ok /\ lastWrites[1].addr = REG_DIRECTION
                      /\ lastWrites[2].ok /\ lastWrites[2].addr = REG_TARGET_RPM

\* C25 witness: a hardware run in reverse without a duration has succeeded
\* and left the pump running counterclockwise at the speed it asked for.
C25_Witness ==
    /\ HwRan /\ lastCall.ret = "True"
    /\ lastCall.duration = Unset /\ lastCall.reverse
    /\ Len(lastWrites) = 3
    /\ dev[Driver.unit_id].coil
    /\ dev[Driver.unit_id].direction = DIRECTION_CCW
    /\ dev[Driver.unit_id].target_rpm = ClampedRpm * RpmScale

\* The writes of the last call that raised.
FailedWrites == {i \in DOMAIN lastWrites : ~lastWrites[i].ok}

\* The first write of the last call that raised (0: none did).
FirstFailed ==
    IF FailedWrites = {} THEN 0
    ELSE CHOOSE i \in FailedWrites : \A j \in FailedWrites : i <= j

\* C26: when a write of PumpController.run raises, at the direction, the
\* target speed, the coil or the de-assert that ends a duration, run makes
\* one more write, a de-assert of the run coil, and returns False, whether
\* or not that write raises too; a run none of whose writes raised returns
\* True; and run() and stop() always return (True or False, and None),
\* stop() after at most one write, whatever that write did.
C26_WriteFailuresContained ==
    /\ HwRan
          => /\ lastCall.ret \in {"True", "False"}
             /\ (FailedWrites = {} /\ lastWrites # <<>>) => lastCall.ret = "True"
             /\ FailedWrites # {}
                   => /\ lastCall.ret = "False"
                      /\ Len(lastWrites) = FirstFailed + 1
                      /\ FirstFailed <= 4
                      /\ lastWrites[Len(lastWrites)].op = "coil"
                      /\ lastWrites[Len(lastWrites)].value = 0
                      /\ lastWrites[Len(lastWrites)].unit = Driver.unit_id
                      /\ \A i \in 1 .. FirstFailed :
                            [lastWrites[i] EXCEPT !.ok = TRUE]
                               = HwRunPlan(Driver, ClampedRpm, lastCall.duration,
                                           lastCall.reverse)[i]
    /\ (lastCall.op = "stop" /\ Driver.kind = "hw")
          => /\ lastCall.ret = None
             /\ Len(lastWrites) <= 1
             /\ \A i \in DOMAIN lastWrites :
                   [lastWrites[i] EXCEPT !.ok = TRUE] = CoilWrite(FALSE, Driver.unit_id, TRUE)

\* C26 witness: the target-speed write of a run raised and the de-assert
\* that followed raised as well; run returned False.
C26_Witness ==
    /\ HwRan /\ lastCall.ret = "False"
    /\ Len(lastWrites) = 3
    /\ lastWrites[1].ok
    /\ lastWrites[2].addr = REG_TARGET_RPM /\ ~lastWrites[2].ok
    /\ lastWrites[3] = CoilWrite(FALSE, Driver.unit_id, FALSE)

(***************************************************************************)
(* Properties of the shared link, checked under SharedSpec.                *)
(***************************************************************************)
\* C27 (as claimed): the retractor's driver, which holds the dispenser's
\* link through set_client, never closes it: its disconnect() leaves every
\* link as it was.
C27_AttachedDriverKeepsLinkOpen ==
    [][DrvDisconnect("retractor", 0) => UNCHANGED link]_vars

(***************************************************************************)
(* Properties of stop requests and the watchdog.  The watchdog is armed    *)
(* only by stop_operation, for the thread the GUI holds at that moment.    *)
(***************************************************************************)
\* C28 (as claimed): a stop request is never lost: while the watchdog that
\* stop_operation armed for the current thread is pending, that thread's
\* flag stays cleared.
C28_StopNeverLost ==
    (stop_timer = "armed" /\ operation_thread # 0)
       => ~threads[operation_thread].is_running

\* C29: an armed watchdog belongs to the thread the GUI holds: it is armed
\* only by a stop of that thread, the GUI neither drops that thread nor
\* takes another while it stays armed, every handling of a terminal event
\* disarms it, and its firing terminates the held thread and no other.
C29_WatchdogBoundToRun ==
    /\ [](stop_timer = "armed" => (operation_thread # 0 /\ current_operation # None))
    /\ [][(stop_timer # "armed" /\ stop_timer' = "armed")
             => (stop_operation /\ ThreadRunning)]_vars
    /\ [][operation_thread' # operation_thread => stop_timer' = None]_vars
    /\ [][(operation_finished \/ HandlingDone) => stop_timer' = None]_vars
    /\ [][ForcedTermination
             => /\ threads'[operation_thread].pc = "finished"
                /\ \A r \in RunIds :
                      r # operation_thread => threads'[r] = threads[r]]_vars

\* C29 witness: the first run is over and handled; the stop button was
\* pressed during the second, which holds the armed watchdog.
C29_Witness ==
    /\ handled[1] = 1
    /\ threads[1].pc = "finished"
    /\ operation_thread = 2
    /\ isRunning(2)
    /\ ~threads[2].is_running
    /\ stop_timer = "armed"

(***************************************************************************)
(* Termination, checked under LiveSpec.  The clock of the model stops at   *)
(* MaxTime, so the property speaks of the runs whose total time ends by    *)
(* then.                                                                   *)
(***************************************************************************)
\* Thread r has just entered its sequence, with time left for all of it.
Begun(r) ==
    /\ threads[r].pc = "run_retractor"
    /\ threads[r].is_running
    /\ threads[r].start_time + threads[r].total_time <= MaxTime

\* Thread r has emitted (name, True) with both pumps stopped.
CompletedOk(r) ==
    /\ threads[r].pc = "return"
    /\ ~Running("dispenser") /\ ~Running("retractor")
    /\ queue # <<>>
    /\ queue[Len(queue)] = CompletedEvent(r, threads[r].operation_name, TRUE, TRUE)

\* The completion of thread r has been handled and the GUI is at rest.
Done(r) ==
    /\ handled[r] = 1
    /\ threads[r].pc = "finished"
    /\ current_operation = None
    /\ operation_thread = 0
    /\ ~Running("dispenser") /\ ~Running("retractor")

\* C30: while no stop is requested, a thread that has entered its sequence
\* emits its operation's name with True, both pumps stopped, and nothing
\* else; and it comes to the state where that completion has been handled,
\* the GUI has no current operation and both pumps are stopped.
C30_UncancelledRunCompletes ==
    /\ [][\A r \in RunIds : WorkerEmitCompleted(r) => CompletedOk(r)']_vars
    /\ \A r \in RunIds : Begun(r) ~> Done(r)

\* C30 witness: a Dispense that was never stopped has emitted
\* ("Dispense", True), three seconds after it began.
C30_Witness ==
    \E r \in RunIds :
        /\ CompletedOk(r)
        /\ threads[r].operation_name = "Dispense"
        /\ threads[r].custom_duration = Unset
        /\ threads[r].is_running
        /\ stop_timer = None
        /\ now = threads[r].start_time + DispenseDuration + OperationSleep

====
